---- MODULE Spec2Model ----
(***************************************************************************)
(* The recording pipeline of midi_melody_gui (src/src/recorder.rs):        *)
(* capture thread -> input2monitor -> monitor thread (Recorder::receive)   *)
(* -> monitor2output -> output thread, with the Recorder behind a Mutex    *)
(* that callers (the UI) also take for program_change, len, index and      *)
(* delete_last_recording.                                                  *)
(*                                                                         *)
(* Time: Instant values are counted in ticks of half a second since the    *)
(* construction of the Recorder.                                           *)
(***************************************************************************)
EXTENDS Integers, Sequences, FiniteSets, TLC

\* ------------------------------------------------------------------ bounds
MaxTime     == 6  \* the clock stops advancing at this tick
MaxEvents   == 2  \* Spec: events the capture thread delivers
MaxCalls    == 2  \* Spec: calls made by the caller thread
MaxReceives == 3  \* SpecRecorder: events the capture thread delivers
MaxDeletes  == 1  \* SpecRecorder: delete_last_recording calls
MaxDiscards == 3  \* SpecDiscard: delete_last_recording calls
MaxUiEvents == 3  \* SpecUI: events the capture thread delivers
MaxFrames   == 2  \* SpecUI: frames the UI thread draws
MaxLogEvents == 4 \* SpecLog: events the capture thread delivers

\* --------------------------------------------------------------- constants
DEFAULT_TIMEOUT == 2                    \* seconds

\* a duration of s seconds, in ticks (as_secs_f64 read back in half seconds)
Seconds(s) == 2 * s

\* the ticks that may pass between the Instant::now() of receive and the
\* one of actively_recording, which is read after it
Skew == {0, 1}

\* Recorder.timeout, set by setup_threads to DEFAULT_TIMEOUT
timeout == Seconds(DEFAULT_TIMEOUT)

\* ---------------------------------------------------------------- messages
Speaker == {"Left", "Both"}

\* MidiMsg payloads a device sends: note-on (velocity 0 or not), note-off,
\* and a message that is not a note message.  origin is a history field: it
\* tells a payload made by the device from one made by SynthMsg::program_change.
DeviceMidiMsg ==
    {[type |-> "NoteOn",  velocity |-> v,  program |-> 0, origin |-> "device"] : v \in {0, 64}}
      \cup
    {[type |-> "NoteOff", velocity |-> 64, program |-> 0, origin |-> "device"],
     [type |-> "ProgramChange", velocity |-> 0, program |-> 0, origin |-> "device"]}

\* the payloads without the note-on of velocity 0
PipelineMidiMsg == {m \in DeviceMidiMsg : m.type = "NoteOn" => m.velocity > 0}

\* SynthMsg { msg, speaker }
SynthMsg(msg, speaker) == [msg |-> msg, speaker |-> speaker]

Programs == {1}

\* SynthMsg::program_change(program, speaker)
SynthMsg_program_change(program, speaker) ==
    [msg |-> [type |-> "ProgramChange", velocity |-> 0, program |-> program,
              origin |-> "inject"],
     speaker |-> speaker]

\* Option<T>: None is the empty sequence, Some(x) the sequence of x alone
None == <<>>
Some(x) == <<x>>

\* midi_fundsp::note_velocity_from: Some(velocity) of a note message, with a
\* note-off counted as velocity 0, None for every other message
note_velocity_from(m) ==
    IF m.type = "NoteOn" THEN Some(m.velocity)
    ELSE IF m.type = "NoteOff" THEN Some(0)
    ELSE None

\* ------------------------------------------------------------------- state
VARIABLES
    clock,           \* Instant::now()
    in_speaker,      \* the routing hint the capture thread gives the events of its device
    input2monitor,   \* Queue A
    monitor2output,  \* Queue B
    quit,            \* the shared AtomicCell<bool>
    recordings,      \* Recorder.recordings: sequence of Recordings, each a sequence of <<elapsed, msg>>
    last_msg,        \* Recorder.last_msg
    current_start,   \* Recorder.current_start
    lock,            \* holder of the Mutex<Recorder>: "free", "monitor", "caller"
    mon_pc,          \* monitor thread: "poll", "lock", "push", "receive"
    mon_msg,         \* the msg the monitor thread popped
    mon_now,         \* the `now` of the receive the monitor thread is in
    caller_pc,       \* caller thread: "idle", "program_change", "delete_last_recording"
    ui,              \* UI thread (MainApp): position in update(), current_recording, synth_sound
    setup_pc,        \* setup_threads: the step it is at, and "running", "Ok" or "Err"
    threads,         \* capture, monitor and output thread: "unstarted", "running", "stopped"
    calls,           \* calls the caller thread has started
    \* history variables
    captured,        \* every SynthMsg pushed to Queue A, in order
    popped,          \* every SynthMsg the monitor thread popped from Queue A, in order
    relayed,         \* every SynthMsg pushed to Queue B, in order
    arrivals,        \* same shape as recordings: the `now` of the receive that stored each event
    deleted,         \* delete_last_recording calls made so far
    lens             \* len() before and after each call of the current run of successive delete_last_recording calls

vars == <<clock, in_speaker, input2monitor, monitor2output, quit, recordings, last_msg,
          current_start, lock, mon_pc, mon_msg, mon_now, caller_pc, calls, ui,
          setup_pc, threads, captured, popped, relayed, arrivals, deleted, lens>>

recorder_vars == <<recordings, last_msg, current_start>>
history_vars  == <<captured, popped, relayed, arrivals, deleted, lens>>

Last(s) == s[Len(s)]
Front(s) == SubSeq(s, 1, Len(s) - 1)

\* ----------------------------------------------------------------- Recorder
\* Recorder::len
len == Len(recordings)

\* Recorder::live_speaker
live_speaker == "Both"

\* a bug: every note message keeps the recording active (velocity >= 0)
actively_recording_any_note(t) ==
    IF recordings # <<>>
    THEN LET recent == Last(recordings) IN
         IF recent # <<>>
         THEN note_velocity_from(Last(recent)[2]) # None
         ELSE FALSE
    ELSE FALSE

\* a bug: an empty log counts as active (unwrap_or(true))
actively_recording_empty_active(t) ==
    IF recordings # <<>>
    THEN LET recent == Last(recordings) IN
         IF recent # <<>>
         THEN LET velocity == note_velocity_from(Last(recent)[2]) IN
              IF velocity # None
              THEN velocity[1] > 0 \/ t - last_msg < timeout
              ELSE FALSE
         ELSE FALSE
    ELSE TRUE

\* a bug: a held note does not keep the recording active
actively_recording_timeout_only(t) ==
    IF recordings # <<>>
    THEN LET recent == Last(recordings) IN
         IF recent # <<>>
         THEN LET velocity == note_velocity_from(Last(recent)[2]) IN
              IF velocity # None
              THEN t - last_msg < timeout
              ELSE FALSE
         ELSE FALSE
    ELSE FALSE

\* Recorder::actively_recording, with t the value of its Instant::now()
actively_recording(t) ==
    IF recordings # <<>>
    THEN LET recent == Last(recordings) IN
         IF recent # <<>>
         THEN LET velocity == note_velocity_from(Last(recent)[2]) IN
              IF velocity # None
              THEN velocity[1] > 0 \/ t - last_msg < timeout
              ELSE FALSE
         ELSE FALSE
    ELSE FALSE

\* a bug: the message is put in front of the recording
add_message_front(recording, time, msg) == <<<<time, msg>>>> \o recording

\* Recording::add_message(time, msg)
add_message(recording, time, msg) == Append(recording, <<time, msg>>)

\* a bug: current_start is not reset when a recording starts
receive_current_start_stale(now, t) == current_start

\* receive: current_start after `if !self.actively_recording() { ... }`;
\* now is the Instant read on entry, t the one read inside actively_recording
receive_current_start(now, t) ==
    IF ~actively_recording(t) THEN now ELSE current_start

\* receive: the log after the push of a new Recording (when not actively
\* recording) and add_message on the last one
receive_recordings(msg, now, t) ==
    LET pushed == IF ~actively_recording(t)
                  THEN Append(recordings, <<>>) ELSE recordings
    IN  [pushed EXCEPT ![Len(pushed)] =
            add_message(@, now - receive_current_start(now, t), msg.msg)]

\* history of receive: the arrival time of the stored event
receive_arrivals(now, t) ==
    LET pushed == IF ~actively_recording(t)
                  THEN Append(arrivals, <<>>) ELSE arrivals
    IN  [pushed EXCEPT ![Len(pushed)] = Append(@, now)]

\* a bug: last_msg is set only when a recording starts
receive_last_msg_on_start(msg, now, t) ==
    /\ recordings'    = receive_recordings(msg, now, t)
    /\ current_start' = receive_current_start(now, t)
    /\ last_msg'      = IF ~actively_recording(t) THEN now ELSE last_msg
    /\ arrivals'      = receive_arrivals(now, t)
    /\ lens'          = <<>>

\* Recorder::receive
receive(msg, now, t) ==
    /\ recordings'    = receive_recordings(msg, now, t)
    /\ current_start' = receive_current_start(now, t)
    /\ last_msg'      = now
    /\ arrivals'      = receive_arrivals(now, t)
    /\ lens'          = <<>>

\* a bug: the oldest recording is removed
delete_last_oldest(recs) == IF Len(recs) > 0 THEN Tail(recs) ELSE recs

\* a bug: the only recording left is kept (len() > 1)
delete_last_keep_one(recs) == IF Len(recs) > 1 THEN Front(recs) ELSE recs

\* the log after Recorder::delete_last_recording
delete_last(recs) == IF Len(recs) > 0 THEN Front(recs) ELSE recs

\* ------------------------------------------------------------------- Init
\* the long-lived threads setup_threads starts
Threads == {"capture", "monitor", "output"}

\* ModNum::new(a, m)
ModNum_new(a, m) == [a |-> a % m, m |-> m]

\* MainApp::new: synth_sound 0, current_recording ModNum::new(0, 1); pc is
\* the call update() is at, locked whether that call holds the Recorder's
\* lock, frames the frames drawn, seen a history field: the events captured
\* when program_change was last called
MainApp_new ==
    [pc |-> "port_name", locked |-> FALSE, current_recording |-> ModNum_new(0, 1),
     synth_sound |-> 0, frames |-> 0, seen |-> 0]

\* the state once setup_threads has returned Ok: empty queues, quit false,
\* Recorder::new, the three threads running
Init ==
    /\ clock = 0
    /\ in_speaker \in Speaker
    /\ input2monitor = <<>>
    /\ monitor2output = <<>>
    /\ quit = FALSE
    /\ recordings = <<>>
    /\ last_msg = 0
    /\ current_start = 0
    /\ lock = "free"
    /\ mon_pc = "poll"
    /\ mon_msg = None
    /\ mon_now = 0
    /\ caller_pc = "idle"
    /\ calls = 0
    /\ ui = MainApp_new
    /\ setup_pc = [at |-> "return", result |-> "Ok"]
    /\ threads = [t \in Threads |-> "running"]
    /\ captured = <<>>
    /\ popped = <<>>
    /\ relayed = <<>>
    /\ arrivals = <<>>
    /\ deleted = 0
    /\ lens = <<>>

\* ---------------------------------------------------------------- actions
\* a bug: a timer closes the session after idle_timeout of silence
Tick_timer(d) ==
    /\ clock + d <= MaxTime
    /\ clock' = clock + d
    /\ IF recordings # <<>> /\ clock + d - last_msg >= timeout
       THEN /\ recordings' = Append(recordings, <<>>)
            /\ arrivals' = Append(arrivals, <<>>)
            /\ current_start' = clock + d
       ELSE UNCHANGED <<recordings, arrivals, current_start>>
    /\ UNCHANGED <<ui, setup_pc, threads, mon_now, in_speaker, input2monitor, monitor2output, quit, last_msg, lock,
                   mon_pc, mon_msg, caller_pc, calls, captured, popped, relayed,
                   deleted, lens>>

\* time passes: d ticks
Tick(d) ==
    /\ clock + d <= MaxTime
    /\ clock' = clock + d
    /\ UNCHANGED <<ui, setup_pc, threads, mon_now, in_speaker, input2monitor, monitor2output, quit, recorder_vars, lock,
                   mon_pc, mon_msg, caller_pc, calls, history_vars>>

\* the capture thread (start_input_thread) pushes a device event to Queue A
Capture(msg) ==
    /\ threads["capture"] = "running"
    /\ ~quit
    /\ input2monitor' = Append(input2monitor, SynthMsg(msg, in_speaker))
    /\ captured' = Append(captured, SynthMsg(msg, in_speaker))
    /\ UNCHANGED <<ui, setup_pc, threads, mon_now, clock, in_speaker, monitor2output, quit, recorder_vars, lock, mon_pc,
                   mon_msg, caller_pc, calls, popped, relayed, arrivals,
                   deleted, lens>>

\* monitor thread: while !quit.load() { if let Some(msg) = incoming.pop()
MonitorPop ==
    /\ threads["monitor"] = "running"
    /\ mon_pc = "poll"
    /\ ~quit
    /\ input2monitor # <<>>
    /\ mon_msg' = Head(input2monitor)
    /\ input2monitor' = Tail(input2monitor)
    /\ popped' = Append(popped, Head(input2monitor))
    /\ mon_pc' = "lock"
    /\ UNCHANGED <<ui, setup_pc, threads, mon_now, clock, in_speaker, monitor2output, quit, recorder_vars, lock,
                   caller_pc, calls, captured, relayed, arrivals, deleted, lens>>

\* a bug: the monitor thread goes on without waiting for the lock
MonitorLock_no_wait ==
    /\ mon_pc = "lock"
    /\ lock' = "monitor"
    /\ mon_pc' = "push"
    /\ UNCHANGED <<ui, setup_pc, threads, mon_now, clock, in_speaker, input2monitor, monitor2output, quit, recorder_vars,
                   mon_msg, caller_pc, calls, history_vars>>

\* monitor thread: recorder.lock().unwrap()
MonitorLock ==
    /\ mon_pc = "lock"
    /\ lock = "free"
    /\ lock' = "monitor"
    /\ mon_pc' = "push"
    /\ UNCHANGED <<ui, setup_pc, threads, mon_now, clock, in_speaker, input2monitor, monitor2output, quit, recorder_vars,
                   mon_msg, caller_pc, calls, history_vars>>

\* a bug: the copy keeps the routing hint of the captured event
outgoing_msg_same_speaker(msg) == msg

\* the copy the monitor thread pushes to Queue B
outgoing_msg(msg) == [msg EXCEPT !.speaker = live_speaker]

\* a bug: the copy is pushed only while a recording is active
relay_when_active(queue, msg) ==
    IF actively_recording(clock) THEN Append(queue, outgoing_msg(msg)) ELSE queue

\* a bug: the copy is put at the head of Queue B
relay_front(queue, msg) == <<outgoing_msg(msg)>> \o queue

\* Queue B after the monitor thread's outgoing.push(outgoing_msg)
relay(queue, msg) == Append(queue, outgoing_msg(msg))

\* a bug: the guard is dropped after the push, before receive
MonitorRelay_unlocked ==
    /\ mon_pc = "push"
    /\ monitor2output' = relay(monitor2output, mon_msg)
    /\ relayed' = relay(relayed, mon_msg)
    /\ mon_pc' = "receive"
    /\ lock' = "free"
    /\ UNCHANGED <<ui, setup_pc, threads, mon_now, clock, in_speaker, input2monitor, quit, recorder_vars, mon_msg,
                   caller_pc, calls, captured, popped, arrivals, deleted, lens>>

\* monitor thread: outgoing.push(outgoing_msg)
MonitorRelay ==
    /\ mon_pc = "push"
    /\ monitor2output' = relay(monitor2output, mon_msg)
    /\ relayed' = relay(relayed, mon_msg)
    /\ mon_pc' = "receive"
    /\ UNCHANGED <<ui, setup_pc, threads, mon_now, clock, in_speaker, input2monitor, quit, recorder_vars, lock, mon_msg,
                   caller_pc, calls, captured, popped, arrivals, deleted, lens>>

\* monitor thread: recorder.receive(msg), then the guard is dropped
MonitorReceive ==
    /\ mon_pc = "receive"
    /\ \E d \in Skew :
          /\ clock + d <= MaxTime
          /\ receive(mon_msg, clock, clock + d)
          /\ clock' = clock + d
    /\ lock' = "free"
    /\ mon_pc' = "poll"
    /\ mon_msg' = None
    /\ UNCHANGED <<ui, setup_pc, threads, mon_now, in_speaker, input2monitor, monitor2output, quit, caller_pc, calls,
                   captured, popped, relayed, deleted>>

\* the output thread (start_output_thread) pops Queue B
Playback ==
    /\ threads["output"] = "running"
    /\ monitor2output # <<>>
    /\ monitor2output' = Tail(monitor2output)
    /\ UNCHANGED <<ui, setup_pc, threads, mon_now, clock, in_speaker, input2monitor, quit, recorder_vars, lock, mon_pc,
                   mon_msg, caller_pc, calls, history_vars>>

\* a caller takes the lock for one call on the Recorder
CallerLock(op) ==
    /\ caller_pc = "idle"
    /\ lock = "free"
    /\ lock' = "caller"
    /\ caller_pc' = op
    /\ calls' = calls + 1
    /\ UNCHANGED <<ui, setup_pc, threads, mon_now, clock, in_speaker, input2monitor, monitor2output, quit, recorder_vars,
                   mon_pc, mon_msg, history_vars>>

\* a bug: the command is pushed to the incoming queue, not the outgoing one
ProgramChange_incoming(program, speaker) ==
    /\ caller_pc = "program_change"
    /\ input2monitor' = Append(input2monitor, SynthMsg_program_change(program, speaker))
    /\ lock' = "free"
    /\ caller_pc' = "idle"
    /\ UNCHANGED <<ui, setup_pc, threads, mon_now, clock, in_speaker, monitor2output, quit, recorder_vars, mon_pc, mon_msg,
                   calls, captured, popped, relayed, arrivals, deleted, lens>>

\* Recorder::program_change, then the guard is dropped
ProgramChange(program, speaker) ==
    /\ caller_pc = "program_change"
    /\ monitor2output' = Append(monitor2output, SynthMsg_program_change(program, speaker))
    /\ relayed' = Append(relayed, SynthMsg_program_change(program, speaker))
    /\ lock' = "free"
    /\ caller_pc' = "idle"
    /\ UNCHANGED <<ui, setup_pc, threads, mon_now, clock, in_speaker, input2monitor, quit, recorder_vars, mon_pc, mon_msg,
                   calls, captured, popped, arrivals, deleted, lens>>

\* Recorder::delete_last_recording, then the guard is dropped
DeleteLastRecording ==
    /\ caller_pc = "delete_last_recording"
    /\ recordings' = delete_last(recordings)
    /\ arrivals' = delete_last(arrivals)
    /\ deleted' = deleted + 1
    /\ lens' = IF lens = <<>> THEN <<len, Len(delete_last(recordings))>>
               ELSE Append(lens, Len(delete_last(recordings)))
    /\ lock' = "free"
    /\ caller_pc' = "idle"
    /\ UNCHANGED <<ui, setup_pc, threads, mon_now, clock, in_speaker, input2monitor, monitor2output, quit, last_msg,
                   current_start, mon_pc, mon_msg, calls, captured, popped,
                   relayed>>

\* a bug: the guard is dropped before add_message
MonitorReceiveStart_unlocked(d) ==
    /\ mon_pc = "receive"
    /\ clock + d <= MaxTime
    /\ recordings' = IF ~actively_recording(clock + d)
                     THEN Append(recordings, <<>>) ELSE recordings
    /\ arrivals' = IF ~actively_recording(clock + d)
                   THEN Append(arrivals, <<>>) ELSE arrivals
    /\ current_start' = receive_current_start(clock, clock + d)
    /\ clock' = clock + d
    /\ mon_now' = clock
    /\ mon_pc' = "add_message"
    /\ lock' = "free"
    /\ UNCHANGED <<ui, setup_pc, threads, in_speaker, input2monitor, monitor2output, quit,
                   last_msg, mon_msg, caller_pc, calls, captured, popped,
                   relayed, deleted, lens>>

\* monitor thread, receive up to add_message: now is read, and when not
\* actively recording a new Recording is pushed and current_start reset;
\* d ticks pass between the read of now and the one in actively_recording
MonitorReceiveStart(d) ==
    /\ mon_pc = "receive"
    /\ clock + d <= MaxTime
    /\ recordings' = IF ~actively_recording(clock + d)
                     THEN Append(recordings, <<>>) ELSE recordings
    /\ arrivals' = IF ~actively_recording(clock + d)
                   THEN Append(arrivals, <<>>) ELSE arrivals
    /\ current_start' = receive_current_start(clock, clock + d)
    /\ clock' = clock + d
    /\ mon_now' = clock
    /\ mon_pc' = "add_message"
    /\ UNCHANGED <<ui, setup_pc, threads, in_speaker, input2monitor, monitor2output, quit,
                   last_msg, lock, mon_msg, caller_pc, calls, captured, popped,
                   relayed, deleted, lens>>

\* monitor thread, the rest of receive: add_message on the last Recording,
\* last_msg = now, then the guard is dropped
MonitorReceiveAdd ==
    /\ mon_pc = "add_message"
    /\ recordings' = [recordings EXCEPT ![Len(recordings)] =
                         add_message(@, mon_now - current_start, mon_msg.msg)]
    /\ arrivals' = [arrivals EXCEPT ![Len(arrivals)] = Append(@, mon_now)]
    /\ last_msg' = mon_now
    /\ lens' = <<>>
    /\ lock' = "free"
    /\ mon_pc' = "poll"
    /\ mon_msg' = None
    /\ UNCHANGED <<ui, setup_pc, threads, mon_now, clock, in_speaker, input2monitor,
                   monitor2output, quit, current_start, caller_pc, calls, captured,
                   popped, relayed, deleted>>

\* ---------------------------------------------------------------- UI thread
\* the calls of update() that start with self.recorder.lock().unwrap()
UiLocked == {"port_name", "program_change", "render_midi_instructions",
             "render_melody_choice", "render_melody"}

\* the sounds the settings offer
Sounds == {0, 1}

\* the clicks a frame can bring to render_melody_choice
Clicks == {"none", "<", ">"}

\* ModNum: self -= 1, self += 1
ModNum_sub(n, k) == ModNum_new(n.a + n.m - (k % n.m), n.m)
ModNum_add(n, k) == ModNum_new(n.a + k, n.m)

\* impl Index<usize> for Recorder: None stands for the panic of an index
\* out of range
index(i) == IF i < len THEN Some(recordings[i + 1]) ELSE None

\* what the variables the UI thread does not own keep
ui_frame == <<setup_pc, threads, mon_now, clock, in_speaker, input2monitor, quit,
              recorder_vars, mon_pc, mon_msg, caller_pc, calls, captured, popped,
              arrivals, deleted, lens>>

\* UI thread: self.recorder.lock().unwrap()
UiLock ==
    /\ ui.pc \in UiLocked
    /\ ~ui.locked
    /\ lock = "free"
    /\ lock' = "ui"
    /\ ui' = [ui EXCEPT !.locked = TRUE]
    /\ UNCHANGED <<ui_frame, monitor2output, relayed>>

\* UI thread: port_name(), then the guard is dropped
PortName ==
    /\ ui.pc = "port_name" /\ ui.locked
    /\ lock' = "free"
    /\ ui' = [ui EXCEPT !.pc = "render_settings", !.locked = FALSE]
    /\ UNCHANGED <<ui_frame, monitor2output, relayed>>

\* UI thread: render_settings up to the lock; render_synth_sounds returns
\* Some(changed) when another sound was chosen
RenderSettings(chosen) ==
    /\ ui.pc = "render_settings"
    /\ ui' = IF chosen # ui.synth_sound
             THEN [ui EXCEPT !.pc = "program_change", !.synth_sound = chosen,
                             !.seen = Len(captured)]
             ELSE [ui EXCEPT !.pc = "render_midi_instructions"]
    /\ UNCHANGED <<ui_frame, lock, monitor2output, relayed>>

\* UI thread: program_change(changed as u8, Speaker::Both), then the guard
\* is dropped
RenderSettingsProgramChange ==
    /\ ui.pc = "program_change" /\ ui.locked
    /\ monitor2output' = Append(monitor2output,
                                SynthMsg_program_change(ui.synth_sound, "Both"))
    /\ relayed' = Append(relayed, SynthMsg_program_change(ui.synth_sound, "Both"))
    /\ lock' = "free"
    /\ ui' = [ui EXCEPT !.pc = "render_midi_instructions", !.locked = FALSE]
    /\ UNCHANGED ui_frame

\* the UI thread after `if recorder.len() > 0 { &recorder[a] ... }`: on to
\* the call next, or panicked with the guard held (the lock is poisoned)
render_indexed(next) ==
    IF len > 0 /\ index(ui.current_recording.a) = None
    THEN lock' = "poisoned" /\ ui' = [ui EXCEPT !.pc = "panicked", !.locked = FALSE]
    ELSE /\ lock' = "free"
         /\ ui' = [ui EXCEPT !.pc = next, !.locked = FALSE,
                             !.frames = IF next = "port_name" THEN @ + 1 ELSE @]

\* UI thread: render_midi_instructions, then the guard is dropped
RenderMidiInstructions ==
    /\ ui.pc = "render_midi_instructions" /\ ui.locked
    /\ render_indexed("render_melody_choice")
    /\ UNCHANGED <<ui_frame, monitor2output, relayed>>

\* a bug: the position is set to len, one past the newest recording
current_recording_past_end(cr) ==
    IF len > cr.m THEN [a |-> len, m |-> len + 1] ELSE cr

\* render_melody_choice: current_recording after
\* `if recorder.len() > self.current_recording.m() { ... }`
current_recording_newest(cr) ==
    IF len > cr.m THEN ModNum_new(len - 1, len) ELSE cr

\* current_recording after the buttons "<" and ">"
clicked(cr, click) ==
    IF click = "<" THEN ModNum_sub(cr, 1)
    ELSE IF click = ">" THEN ModNum_add(cr, 1)
    ELSE cr

\* UI thread: render_melody_choice, then the guard is dropped; the buttons
\* are there when len() > 1
RenderMelodyChoice(click) ==
    /\ ui.pc = "render_melody_choice" /\ ui.locked
    /\ len <= 1 => click = "none"
    /\ ui' = [ui EXCEPT !.pc = "render_melody", !.locked = FALSE,
                        !.current_recording =
                            IF len > 1 THEN clicked(current_recording_newest(@), click)
                            ELSE @]
    /\ lock' = "free"
    /\ UNCHANGED <<ui_frame, monitor2output, relayed>>

\* UI thread: render_melody, then the guard is dropped and the frame ends;
\* the next update() starts with port_name()
RenderMelody ==
    /\ ui.pc = "render_melody" /\ ui.locked
    /\ render_indexed("port_name")
    /\ UNCHANGED <<ui_frame, monitor2output, relayed>>

\* ------------------------------------------------------------ setup_threads
\* a bug: the threads are started before the port name is asked for
setup_order_threads_first ==
    <<"MidiInput_new", "get_first_midi_device", "start_input_thread",
      "start_monitor_thread", "start_output_thread", "port_name", "return">>

\* the steps of setup_threads, in order
setup_order ==
    <<"MidiInput_new", "get_first_midi_device", "port_name", "start_input_thread",
      "start_monitor_thread", "start_output_thread", "return">>

\* the steps that end with `?`
Fallible == {"MidiInput_new", "get_first_midi_device", "port_name"}

\* the thread each start_*_thread spawns
spawned(at) ==
    IF at = "start_input_thread" THEN "capture"
    ELSE IF at = "start_monitor_thread" THEN "monitor"
    ELSE "output"

\* setup_threads after the step at: at the step next, or returned Ok(recorder)
setup_after(at) ==
    LET i == CHOOSE k \in 1..Len(setup_order) : setup_order[k] = at
        next == setup_order[i + 1]
    IN  [at |-> next, result |-> IF next = "return" THEN "Ok" ELSE "running"]

\* what setup_threads leaves alone
setup_frame == <<ui, mon_now, clock, in_speaker, input2monitor, monitor2output, quit,
                 recorder_vars, lock, mon_pc, mon_msg, caller_pc, calls, history_vars>>

\* a step with `?`: on Err setup_threads returns the error at once
SetupTry(ok) ==
    /\ setup_pc.result = "running"
    /\ setup_pc.at \in Fallible
    /\ setup_pc' = IF ok THEN setup_after(setup_pc.at)
                   ELSE [at |-> setup_pc.at, result |-> "Err"]
    /\ UNCHANGED <<setup_frame, threads>>

\* start_input_thread, start_monitor_thread, start_output_thread
SetupStart ==
    /\ setup_pc.result = "running"
    /\ setup_pc.at \notin Fallible
    /\ threads' = [threads EXCEPT ![spawned(setup_pc.at)] = "running"]
    /\ setup_pc' = setup_after(setup_pc.at)
    /\ UNCHANGED setup_frame

\* ----------------------------------------------------------------- shutdown
\* the flag is stored to.  No code of src/ does it: setup_threads gives the
\* only clones of quit to the capture and the monitor thread.
SetQuit ==
    /\ ~quit
    /\ quit' = TRUE
    /\ UNCHANGED <<ui, setup_pc, threads, mon_now, clock, in_speaker, input2monitor,
                   monitor2output, recorder_vars, lock, mon_pc, mon_msg, caller_pc,
                   calls, history_vars>>

\* the threads setup_threads hands a clone of quit to
quit_holders == {"capture", "monitor"}

\* a thread that holds the flag finds it set and ends
Stop(t) ==
    /\ t \in quit_holders
    /\ threads[t] = "running"
    /\ quit
    /\ t = "monitor" => mon_pc = "poll"
    /\ threads' = [threads EXCEPT ![t] = "stopped"]
    /\ UNCHANGED <<ui, setup_pc, mon_now, clock, in_speaker, input2monitor,
                   monitor2output, quit, recorder_vars, lock, mon_pc, mon_msg,
                   caller_pc, calls, history_vars>>

\* ---------------------------------------------------------- specifications
\* Spec: the whole pipeline, every thread free to run; silences last
\* idle_timeout
Next ==
    \/ Tick(timeout)
    \/ \E msg \in PipelineMidiMsg : Len(captured) < MaxEvents /\ Capture(msg)
    \/ MonitorPop
    \/ MonitorLock
    \/ MonitorRelay
    \/ MonitorReceive
    \/ Playback
    \/ \E op \in {"program_change", "delete_last_recording"} :
          calls < MaxCalls /\ CallerLock(op)
    \/ \E program \in Programs : ProgramChange(program, "Both")
    \/ DeleteLastRecording

Spec == Init /\ [][Next]_vars

\* no event is on its way to the Recorder and no call is being made
Idle == input2monitor = <<>> /\ mon_pc = "poll" /\ caller_pc = "idle"

\* SpecRecorder: the Recorder seen call by call.  The device delivers an
\* event, and the caller discards, when the previous event and call have
\* been handled; time passes tick by tick between them (and inside receive).
NextRecorder ==
    \/ Idle /\ Tick(1)
    \/ \E msg \in DeviceMidiMsg :
          Idle /\ Len(captured) < MaxReceives /\ Capture(msg)
    \/ MonitorPop
    \/ MonitorLock
    \/ MonitorRelay
    \/ MonitorReceive
    \/ Idle /\ calls < MaxDeletes /\ CallerLock("delete_last_recording")
    \/ DeleteLastRecording

\* the device of these runs gives its events the hint "Both"
InitRecorder == Init /\ in_speaker = "Both"

SpecRecorder == InitRecorder /\ [][NextRecorder]_vars

\* SpecDiscard: as SpecRecorder, with more discards and silences that last
\* idle_timeout
NextDiscard ==
    \/ Idle /\ Tick(timeout)
    \/ \E msg \in DeviceMidiMsg :
          Idle /\ Len(captured) < MaxEvents /\ Capture(msg)
    \/ MonitorPop
    \/ MonitorLock
    \/ MonitorRelay
    \/ MonitorReceive
    \/ Idle /\ calls < MaxDiscards /\ CallerLock("delete_last_recording")
    \/ DeleteLastRecording

SpecDiscard == InitRecorder /\ [][NextDiscard]_vars

\* the device events of SpecUI: a note that keeps the recording active and
\* an event that is not a note
UiMidiMsg == {m \in PipelineMidiMsg : m.type \in {"NoteOn", "ProgramChange"}}

\* SpecUI: the monitor thread, its receive in two steps, and the UI thread
\* drawing frames, every thread free to run.  All happens within one tick
\* (SpecRecorder has the timing): a note keeps the recording active, an
\* event that is not a note starts a new one.
NextUI ==
    \/ \E msg \in UiMidiMsg : Len(captured) < MaxUiEvents /\ Capture(msg)
    \/ MonitorPop
    \/ MonitorLock
    \/ MonitorRelay
    \/ MonitorReceiveStart(0)
    \/ MonitorReceiveAdd
    \/ ui.frames < MaxFrames /\ UiLock
    \/ PortName
    \/ \E chosen \in Sounds : RenderSettings(chosen)
    \/ RenderSettingsProgramChange
    \/ RenderMidiInstructions
    \/ \E click \in Clicks : RenderMelodyChoice(click)
    \/ RenderMelody

SpecUI == InitRecorder /\ [][NextUI]_vars

\* SpecLog: as SpecDiscard, with receive in two steps and more events
NextLog ==
    \/ Idle /\ Tick(timeout)
    \/ \E msg \in PipelineMidiMsg :
          Idle /\ Len(captured) < MaxLogEvents /\ Capture(msg)
    \/ MonitorPop
    \/ MonitorLock
    \/ MonitorRelay
    \/ \E d \in Skew : MonitorReceiveStart(d)
    \/ MonitorReceiveAdd
    \/ Idle /\ calls < MaxDeletes /\ CallerLock("delete_last_recording")
    \/ DeleteLastRecording

SpecLog == InitRecorder /\ [][NextLog]_vars

\* SpecSetup: from the call of setup_threads; a started thread runs at once,
\* a caller has the Recorder once setup_threads has returned Ok
InitSetup ==
    \E speaker \in Speaker :
        /\ clock = 0 /\ in_speaker = speaker
        /\ input2monitor = <<>> /\ monitor2output = <<>> /\ quit = FALSE
        /\ recordings = <<>> /\ last_msg = 0 /\ current_start = 0
        /\ lock = "free" /\ mon_pc = "poll" /\ mon_msg = None /\ mon_now = 0
        /\ caller_pc = "idle" /\ calls = 0 /\ ui = MainApp_new
        /\ setup_pc = [at |-> setup_order[1], result |-> "running"]
        /\ threads = [t \in Threads |-> "unstarted"]
        /\ captured = <<>> /\ popped = <<>> /\ relayed = <<>> /\ arrivals = <<>>
        /\ deleted = 0 /\ lens = <<>>

NextSetup ==
    \/ \E ok \in BOOLEAN : SetupTry(ok)
    \/ SetupStart
    \/ \E msg \in PipelineMidiMsg : Len(captured) < MaxEvents /\ Capture(msg)
    \/ MonitorPop
    \/ MonitorLock
    \/ MonitorRelay
    \/ MonitorReceive
    \/ Playback
    \/ setup_pc.result = "Ok" /\ calls < MaxCalls /\ CallerLock("program_change")
    \/ \E program \in Programs : ProgramChange(program, "Both")

SpecSetup == InitSetup /\ [][NextSetup]_vars

\* SpecShutdown: the pipeline, and the flag stored to at any time; every
\* thread that can take a step takes one in the end
NextShutdown ==
    \/ \E msg \in PipelineMidiMsg : Len(captured) < MaxEvents /\ Capture(msg)
    \/ MonitorPop
    \/ MonitorLock
    \/ MonitorRelay
    \/ MonitorReceive
    \/ Playback
    \/ SetQuit
    \/ \E t \in Threads : Stop(t)

SpecShutdown ==
    /\ Init
    /\ [][NextShutdown]_vars
    /\ WF_vars(MonitorLock) /\ WF_vars(MonitorRelay) /\ WF_vars(MonitorReceive)
    /\ WF_vars(Playback)
    /\ \A t \in Threads : WF_vars(Stop(t))

\* ------------------------------------------------------------- properties
RECURSIVE Flatten(_)
\* the concatenation of a sequence of sequences
Flatten(ss) == IF ss = <<>> THEN <<>> ELSE Head(ss) \o Flatten(Tail(ss))

IsPrefix(s, t) == Len(s) <= Len(t) /\ s = SubSeq(t, 1, Len(s))

\* the MidiMsg payloads of a sequence of SynthMsg
Payloads(q) == [i \in 1..Len(q) |-> q[i].msg]

\* the MidiMsg payloads stored in a Recording
Stored(recording) == [i \in 1..Len(recording) |-> recording[i][2]]

\* the pushes to Queue B that are relayed copies, not injected commands
RelayedCopies == SelectSeq(relayed, LAMBDA m : m.msg.origin = "device")

\* a note-on with non-zero velocity
Engaged(m) == m.type = "NoteOn" /\ m.velocity > 0

\* a note-off, or a note-on with velocity 0
Release(m) == m.type = "NoteOff" \/ (m.type = "NoteOn" /\ m.velocity = 0)

\* the steps that are a whole call on the Recorder
ReceiveStep == mon_pc = "receive" /\ mon_pc' = "poll"
DeleteStep == caller_pc = "delete_last_recording" /\ caller_pc' = "idle"
ProgramChangeStep == caller_pc = "program_change" /\ caller_pc' = "idle"

\* the events receive() has been called with, in order
Received == IF mon_pc = "poll" THEN popped ELSE Front(popped)

\* every stored event's elapsed time is its arrival time minus the arrival
\* time of the first event of its Recording
ElapsedFromFirst ==
    \A r \in 1..Len(recordings) : \A i \in 1..Len(recordings[r]) :
        recordings[r][i][1] = arrivals[r][i] - arrivals[r][1]

\* C1: events received less than idle_timeout apart (empty log at the start,
\* no discard) are all in one Recording, in arrival order, with elapsed time
\* measured from the first of them, whatever kind of event they are.
C1_Claim ==
    LET at == Flatten(arrivals) IN
    (/\ deleted = 0
     /\ \A i \in 1..(Len(at) - 1) : at[i + 1] - at[i] < timeout)
    => /\ Len(recordings) <= 1
       /\ Stored(Flatten(recordings)) = Payloads(Received)
       /\ ElapsedFromFirst

\* C2: when an event is received more than idle_timeout after the previous
\* one and the last stored event is not an engaged note, receive appends a
\* new Recording holding that event alone with elapsed time 0, and sets
\* current_start to the event's arrival time.
C2_NewRecordingAfterIdleGap ==
    [][(/\ ReceiveStep
        /\ Len(popped) >= 2
        /\ recordings # <<>>
        /\ ~Engaged(Last(Last(recordings))[2])
        /\ clock - last_msg > timeout)
       => /\ recordings' = Append(recordings, << <<0, mon_msg.msg>> >>)
          /\ current_start' = clock]_vars

C2_Witness ==
    /\ deleted = 0
    /\ Len(recordings) >= 2
    /\ LET n == Len(recordings) IN
         /\ Last(recordings[n - 1])[2].type = "NoteOff"
         /\ arrivals[n][1] - Last(arrivals[n - 1]) > timeout
         /\ recordings[n] = << <<0, Last(Received).msg>> >>
         /\ current_start = arrivals[n][1]

\* C3: actively_recording() is true exactly when the log is non-empty and
\* (the last stored event is an engaged note or less than idle_timeout has
\* passed since the last received event).
C3_Claim ==
    actively_recording(clock)
      <=> /\ recordings # <<>>
          /\ \/ Engaged(Last(Last(recordings))[2])
             \/ clock - last_msg < timeout

\* C4: every event popped from Queue A gets exactly one relayed copy on
\* Queue B: none before the monitor thread's push, one from the push on.
C4_OneRelayPerPop ==
    /\ mon_pc \in {"poll", "receive"} => Len(RelayedCopies) = Len(popped)
    /\ mon_pc \in {"lock", "push"} => Len(RelayedCopies) = Len(popped) - 1

C4_Witness ==
    /\ mon_pc = "poll"
    /\ Len(popped) = 2
    /\ Len(RelayedCopies) = 2
    /\ Len(recordings) = 1
    /\ Len(recordings[1]) = 2

\* C5 as stated: with no discard, at any time the relayed copies and the
\* recorded events are both the sequence popped from Queue A, itself a
\* prefix of the sequence pushed to Queue A.
C5_Claim ==
    deleted = 0 =>
        /\ Payloads(RelayedCopies) = Payloads(popped)
        /\ Stored(Flatten(recordings)) = Payloads(popped)
        /\ IsPrefix(popped, captured)

\* C5 amended: with no discard, the popped sequence is a prefix of the pushed
\* one; the relayed copies and the recorded events are the popped sequence
\* whenever the monitor thread is not handling an event, and while it is
\* handling one each of them is the popped sequence with or without that
\* last event (the relayed copies get it at the push, the log at receive).
C5_NoLossNoReorder ==
    deleted = 0 =>
        /\ IsPrefix(popped, captured)
        /\ Stored(Flatten(recordings)) = Payloads(Received)
        /\ Payloads(RelayedCopies) =
             Payloads(IF mon_pc \in {"lock", "push"} THEN Front(popped) ELSE popped)

C5_Witness ==
    /\ deleted = 0
    /\ mon_pc = "poll"
    /\ Len(popped) = 2
    /\ popped[1].msg # popped[2].msg
    /\ Len(recordings) = 1
    /\ Payloads(RelayedCopies) = Payloads(popped)

\* C6: no injected command is ever stored in a Recording, and program_change
\* appends its command to Queue B and changes neither Queue A nor the
\* recording log, last_msg or current_start.
C6_CommandsBypassLog ==
    /\ [](\A r \in 1..Len(recordings) : \A i \in 1..Len(recordings[r]) :
             recordings[r][i][2].origin # "inject")
    /\ [][ProgramChangeStep =>
            /\ UNCHANGED <<recordings, last_msg, current_start, input2monitor>>
            /\ Len(monitor2output') = Len(monitor2output) + 1
            /\ SubSeq(monitor2output', 1, Len(monitor2output)) = monitor2output
            /\ Last(monitor2output').msg.origin = "inject"]_vars

C6_Witness ==
    /\ recordings # <<>>
    /\ \E i \in 1..Len(relayed) : \E j \in 1..Len(relayed) :
          /\ i < j
          /\ relayed[i].msg.origin = "inject"
          /\ relayed[j].msg.origin = "device"
    /\ mon_pc = "poll"

\* C7: len() decreases only in a delete_last_recording call, by one, and
\* that call leaves every recording below the new length as it was.
C7_LenDecreasesOnlyByDiscard ==
    [][/\ Len(recordings') < Len(recordings) =>
            DeleteStep /\ Len(recordings') = Len(recordings) - 1
       /\ DeleteStep =>
            /\ Len(recordings') <= Len(recordings)
            /\ recordings' = SubSeq(recordings, 1, Len(recordings'))]_vars

C7_Witness ==
    /\ lens = <<2, 1>>
    /\ len = 1
    /\ \E i \in 1..Len(relayed) : relayed[i].msg.origin = "inject"

\* C8: delete_last_recording removes the last recording of a non-empty log
\* and changes nothing on an empty one; in a run of successive calls len()
\* goes down by one per call until it is 0 and then stays 0 (from 2: 1, 0, 0).
C8_DiscardLast ==
    /\ [](\A i \in 1..(Len(lens) - 1) :
             lens[i + 1] = IF lens[i] > 0 THEN lens[i] - 1 ELSE 0)
    /\ [][DeleteStep =>
            /\ UNCHANGED <<last_msg, current_start, input2monitor, monitor2output>>
            /\ recordings' = IF recordings = <<>> THEN recordings
                             ELSE Front(recordings)]_vars

C8_Witness == lens = <<2, 1, 0, 0>>

\* C9: with idle_timeout = 2.0 s and an empty log, an engage at t = 0.0
\* (tick 0) starts Recording #1 with elapsed 0, a release at t = 0.5 (tick 1)
\* is appended to it with elapsed 0.5, an engage at t = 3.0 (tick 6) starts
\* Recording #2 with elapsed 0, and len() is then 2.
C9_Scenario ==
    LET at == Flatten(arrivals)
        ev == Payloads(Received)
    IN  (deleted = 0 /\ timeout = Seconds(2)) =>
        /\ (at = <<0>> /\ Engaged(ev[1]))
             => recordings = << << <<0, ev[1]>> >> >>
        /\ (at = <<0, 1>> /\ Engaged(ev[1]) /\ Release(ev[2]))
             => recordings = << << <<0, ev[1]>>, <<1, ev[2]>> >> >>
        /\ (at = <<0, 1, 6>> /\ Engaged(ev[1]) /\ Release(ev[2]) /\ Engaged(ev[3]))
             => /\ recordings = << << <<0, ev[1]>>, <<1, ev[2]>> >>,
                                   << <<0, ev[3]>> >> >>
                /\ len = 2

C9_Witness ==
    /\ deleted = 0
    /\ Flatten(arrivals) = <<0, 1, 6>>
    /\ Len(Received) = 3
    /\ Engaged(Received[1].msg) /\ Release(Received[2].msg) /\ Engaged(Received[3].msg)
    /\ len = 2

\* C10: after any sequence of receive and delete_last_recording calls, every
\* stored event's elapsed time is its arrival time minus the arrival time of
\* the first event of the Recording it is stored in.
C10_Claim == ElapsedFromFirst

\* C11: session boundaries are detected lazily: a step in which only time
\* passes changes neither the log nor current_start nor last_msg, the log
\* grows only in a receive step, and by one Recording.
C11_LazyBoundary ==
    [][/\ (clock' # clock /\ ~ReceiveStep) => UNCHANGED <<recordings, current_start, last_msg>>
       /\ Len(recordings') > Len(recordings) =>
            ReceiveStep /\ Len(recordings') = Len(recordings) + 1]_vars

C11_Witness ==
    /\ deleted = 0
    /\ Idle
    /\ Len(recordings) = 1
    /\ ~Engaged(Last(Last(recordings))[2])
    /\ clock - last_msg > timeout

\* C12: every receive sets last_msg to the arrival time of its event, whether
\* the event continues a recording or starts one; last_msg never moves
\* backward and only receive changes it.
C12_LastMsg ==
    [][/\ ReceiveStep => last_msg' = clock
       /\ last_msg' >= last_msg
       /\ last_msg' # last_msg => ReceiveStep]_vars

C12_Witness ==
    /\ deleted = 0
    /\ mon_pc = "poll"
    /\ Len(recordings) = 2
    /\ Len(recordings[2]) = 2
    /\ arrivals[2][1] < arrivals[2][2]
    /\ last_msg = arrivals[2][2]

\* C17: for each event the append to the log comes before the push to
\* Queue B: with no discard, there are never more relayed copies than
\* recorded events (never relayed but not recorded).
C17_Claim ==
    deleted = 0 => Len(RelayedCopies) <= Len(Flatten(recordings))

\* C18: the i-th relayed copy has the payload of the i-th event popped from
\* Queue A, which is the payload stored for it in the log (no discard), and
\* its routing hint is live_speaker() = Both whatever hint the event had.
C18_RelayedCopy ==
    /\ Len(RelayedCopies) <= Len(popped)
    /\ \A i \in 1..Len(RelayedCopies) :
          /\ RelayedCopies[i].msg = popped[i].msg
          /\ RelayedCopies[i].speaker = "Both"
          /\ popped[i].speaker = in_speaker
    /\ deleted = 0 =>
          \A i \in 1..Len(Flatten(recordings)) :
              Flatten(recordings)[i][2] = RelayedCopies[i].msg

C18_Witness ==
    /\ deleted = 0
    /\ in_speaker = "Left"
    /\ mon_pc = "poll"
    /\ Len(RelayedCopies) = 2
    /\ Len(Flatten(recordings)) = 2
    /\ popped[1].msg # popped[2].msg

\* C20: receive never fails: after every receive the log is non-empty, it
\* holds one more event than before, and the event received is the last
\* event of the last recording, also on an empty log at start-up and on a
\* log emptied by delete_last_recording.
C20_ReceiveStores ==
    [][ReceiveStep =>
         /\ recordings' # <<>>
         /\ Len(Flatten(recordings')) = Len(Flatten(recordings)) + 1
         /\ Last(recordings') # <<>>
         /\ Last(Last(recordings')) = <<clock - current_start', mon_msg.msg>>]_vars

C20_Witness ==
    /\ deleted = 1
    /\ mon_pc = "poll"
    /\ Len(popped) = 2
    /\ Len(recordings) = 1
    /\ Len(recordings[1]) = 1
    /\ arrivals[1][1] = last_msg
    /\ lens = <<>>

\* the monitor thread is between recorder.lock() and the drop of the guard
MonitorInside == mon_pc \in {"push", "receive", "add_message"}

\* the log as a finished receive leaves it: no Recording is empty,
\* current_start is the arrival of the last Recording's first event and
\* last_msg the arrival of its last
ReceiveApplied ==
    /\ \A r \in 1..Len(recordings) : recordings[r] # <<>>
    /\ recordings # <<>> =>
          /\ current_start = Last(arrivals)[1]
          /\ last_msg = Last(Last(arrivals))

\* C13: at most one thread is inside a critical section; the monitor thread
\* holds the lock from before the relay to the end of receive; the UI thread
\* makes its calls on the Recorder holding the lock; and a UI thread that
\* holds the lock never sees a half-applied receive.
C13_MutualExclusion ==
    /\ ~(MonitorInside /\ ui.locked)
    /\ MonitorInside <=> lock = "monitor"
    /\ ui.locked <=> lock = "ui"
    /\ ui.locked => ui.pc \in UiLocked
    /\ ui.locked => ReceiveApplied

\* the UI thread holds the lock while the monitor thread, a third event in
\* hand, waits for it; two receives before it each were in two halves
C13_Witness ==
    /\ ui.locked /\ ui.pc = "render_melody"
    /\ mon_pc = "lock"
    /\ Len(recordings) = 2
    /\ Len(popped) = 3

\* C15: relayed copies are pushed to Queue B in Queue A order, wherever the
\* injected commands fall among them.
C15_RelayedInQueueAOrder ==
    /\ IsPrefix(Payloads(RelayedCopies), Payloads(captured))
    /\ \A i \in 1..Len(relayed) :
          relayed[i].msg.origin = "inject" => relayed[i].speaker = "Both"

\* two events were captured before program_change was called; the command
\* is on Queue B after the copy of the first and before the copy of the second
C15_Witness ==
    /\ ui.seen = 2
    /\ Len(relayed) = 3
    /\ relayed[1].msg = captured[1].msg
    /\ relayed[2].msg.origin = "inject"
    /\ relayed[3].msg = captured[2].msg
    /\ captured[1].msg # captured[2].msg

\* C19: whenever the UI thread evaluates recorder[current_recording.a()],
\* holding the lock and having seen len() > 0, the index is less than len();
\* the UI thread never panics.
C19_IndexInRange ==
    /\ ui.pc # "panicked"
    /\ lock # "poisoned"
    /\ ui.current_recording.a < ui.current_recording.m
    /\ (ui.locked /\ ui.pc \in {"render_midi_instructions", "render_melody"} /\ len > 0)
          => index(ui.current_recording.a) # None

\* the log grew to three recordings after the frame that set
\* current_recording to the newest of two; the next frame indexes it
C19_Witness ==
    /\ ui.locked /\ ui.pc = "render_midi_instructions"
    /\ len = 3
    /\ ui.current_recording = [a |-> 1, m |-> 2]

\* C14: once the quit flag is set, the capture, the monitor and the playback
\* thread all stop in the end.
C14_Claim == quit ~> (\A t \in Threads : threads[t] = "stopped")

\* C16: when a step of setup_threads fails no thread has been started and
\* no caller has the Recorder; the monitor and the playback thread never run
\* without the capture thread; a caller has the Recorder only once all three
\* run.
C16_SetupFailsBeforeThreads ==
    /\ setup_pc.result = "Err" =>
          /\ \A t \in Threads : threads[t] = "unstarted"
          /\ calls = 0 /\ captured = <<>>
    /\ \A t \in {"monitor", "output"} :
          threads[t] = "running" => threads["capture"] = "running"
    /\ (setup_pc.result = "Ok" \/ calls > 0) =>
          \A t \in Threads : threads[t] = "running"

\* the device was found and its port name could not be obtained
C16_Witness == setup_pc = [at |-> "port_name", result |-> "Err"]

\* C21: whenever the lock is free, after any sequence of receive and
\* delete_last_recording calls, every Recording holds at least one event and
\* its first event has elapsed time 0.
C21_NonEmptyFromZero ==
    lock = "free" =>
        \A r \in 1..Len(recordings) :
            recordings[r] # <<>> /\ recordings[r][1][1] = 0

\* after a discard, an event was appended to the recording that became last
\* again, which now holds two events
C21_Witness ==
    /\ deleted = 1 /\ lock = "free" /\ mon_pc = "poll"
    /\ Len(popped) = 3
    /\ Len(recordings) = 1 /\ Len(recordings[1]) = 2
    /\ recordings[1][2][1] = 0

\* the steps of a receive: the one step of MonitorReceive, the two of
\* MonitorReceiveStart and MonitorReceiveAdd
ReceiveWrites == mon_pc \in {"receive", "add_message"} /\ mon_pc' # mon_pc

\* C22: receive changes no recording but the last one of the log it leaves,
\* and no recording before the last ends with a note-on of non-zero velocity.
C22_OnlyLastWritten ==
    [][/\ ReceiveWrites =>
             /\ Len(recordings') >= Len(recordings)
             /\ \A r \in 1..(Len(recordings') - 1) :
                    r <= Len(recordings) /\ recordings'[r] = recordings[r]
       /\ \A r \in 1..(Len(recordings') - 1) :
             ~Engaged(Last(recordings'[r])[2])]_vars

\* after a discard a new recording was started behind a closed one: the
\* closed one ends with an event that is not a held note, the new one holds
\* a note-on
C22_Witness ==
    /\ deleted = 1 /\ mon_pc = "poll"
    /\ Len(popped) = 3
    /\ Len(recordings) = 2
    /\ ~Engaged(Last(recordings[1])[2])
    /\ Engaged(Last(recordings[2])[2])

\* C23: whenever the monitor thread does not hold the lock (the lock is free,
\* or a caller holds it and looks), and no recording was discarded, as many
\* relayed copies have been pushed to Queue B as events are stored in the log.
C23_RelayedAsManyAsStored ==
    (lock \in {"free", "caller"} /\ deleted = 0) =>
        Len(RelayedCopies) = Len(Flatten(recordings))

\* a caller holds the lock after one event was relayed and stored and one
\* command injected; the monitor thread waits with the second event
C23_Witness ==
    /\ lock = "caller" /\ deleted = 0
    /\ mon_pc = "lock"
    /\ Len(relayed) = 2 /\ Len(RelayedCopies) = 1
    /\ Len(Flatten(recordings)) = 1

\* C24: within every Recording the elapsed times of the stored events are
\* non-decreasing in storage order, after any sequence of receive and
\* delete_last_recording calls.
C24_Claim ==
    lock = "free" =>
        \A r \in 1..Len(recordings) : \A i \in 1..(Len(recordings[r]) - 1) :
            recordings[r][i][1] <= recordings[r][i + 1][1]

====
